---- MODULE Spec2Model ----
(***************************************************************************)
(* A model of src/src/pot.ts (class PoTokenManager) and of                 *)
(* src/src/handlers/getPoToken.ts (handleGetPoToken).                      *)
(*                                                                         *)
(* Each caller is one HTTP request running handleGetPoToken, which awaits  *)
(* potManager.generatePoToken.  A caller's pc names the library or network *)
(* promise the request is suspended on, or the await of an async method's  *)
(* return that separates two accesses of this.innertube or the minter      *)
(* cache (pot.ts:76, 229, 230); one action is the continuation that runs   *)
(* when that promise settles, up to the next such await.  The              *)
(* outcome of every external call (Innertube.create, the att/get request,  *)
(* the interpreter fetch, BG.Challenge.create, the interpreter script,     *)
(* BG.BotGuardClient.create, snapshot, the GenerateIT request,             *)
(* BG.WebPoMinter.create, mintAsWebsafeString) is chosen by the            *)
(* environment.  Time is Date.now() in milliseconds.                       *)
(***************************************************************************)
EXTENDS Integers, Sequences, FiniteSets, TLC

\* ----------------------------------------------------------------- bounds
MaxTime == 1
MaxTtlSecs == 1
MaxMinters == 2
MaxInstances == 2

\* ------------------------------------------------------ program constants
TOKEN_TTL_HOURS == 6
MsPerSec == 1000

\* requests in flight at the same time; the callers are interchangeable, and a request
\* that arrives while none is in flight is FirstCaller's
Callers == {"a", "b"}
FirstCaller == "a"

VisitorInputs == {"", "visitor-1"}
VideoInputs == {"", "video-a"}
ProviderVisitorData == {"", "visitor-p"}

VARIABLES now, minterCache, innertube, nextMinter, calls, hasDom, domInstalls, instances

vars == <<now, minterCache, innertube, nextMinter, calls, hasDom, domInstalls, instances>>

\* ------------------------------------------------------------------ values
\* this._minterCache.get("default") of an empty map
NoMinter == [id |-> 0, expiry |-> 0 - 1, integrityToken |-> ""]
\* this.innertube before Innertube.create has been stored
NoInnertube == [created |-> FALSE, visitorData |-> "", context |-> FALSE]
\* what Innertube.create may resolve to: an instance whose session.context is there,
\* with or without a client.visitorData, or one without session.context
InnertubeInstances ==
    {[created |-> TRUE, visitorData |-> v, context |-> TRUE] : v \in ProviderVisitorData}
    \cup {[created |-> TRUE, visitorData |-> "", context |-> FALSE]}
\* a variable holding undefined where a token may be stored
NoToken == [minter |-> 0, input |-> "", value |-> "undefined"]
\* no descrambled challenge obtained yet
NoChallenge == [program |-> FALSE, globalName |-> FALSE, interpreterHash |-> FALSE,
                interpreterJavascript |-> FALSE, clientExperimentsStateBlob |-> FALSE]
NoResult == [visitorDataToken |-> NoToken, visitorData |-> "",
             videoIdToken |-> NoToken, expiresAt |-> 0 - 1]

\* what the attestation envelope (attestation.bgChallenge) may carry
Envelopes == {[program |-> TRUE, globalName |-> TRUE, interpreterHash |-> TRUE,
               clientExperimentsStateBlob |-> TRUE],
              [program |-> FALSE, globalName |-> TRUE, interpreterHash |-> TRUE,
               clientExperimentsStateBlob |-> TRUE]}
\* what BG.Challenge.create may resolve to when it resolves to a challenge
CreatedChallenges ==
    {[program |-> TRUE, globalName |-> TRUE, interpreterHash |-> TRUE,
      interpreterJavascript |-> TRUE, clientExperimentsStateBlob |-> TRUE],
     [program |-> TRUE, globalName |-> TRUE, interpreterHash |-> TRUE,
      interpreterJavascript |-> FALSE, clientExperimentsStateBlob |-> TRUE]}

\* the first element of the GenerateIT response: absent or a token
IntegrityTokens == {"", "it"}

\* the pcs at which a caller is inside generateTokenMinter
RefreshPcs ==
    {"ctx_ready", "att", "interp", "fallback", "bgclient", "snapshot", "exchange", "minter"}

\* a request that has not been received yet
IdleCall ==
    [pc |-> "idle", visitorData |-> "", videoId |-> "", identifier |-> "",
     provider |-> "unused", local |-> NoInnertube, cacheRead |-> FALSE,
     fromCache |-> FALSE, refreshes |-> 0, attGets |-> 0, fallbacks |-> 0,
     exchanges |-> 0,
     primary |-> "none", fallback |-> "none",
     challenge |-> NoChallenge, expiry |-> 0 - 1, integrityToken |-> "",
     stored |-> FALSE,
     tokenMinter |-> NoMinter, visitorDataToken |-> NoToken,
     status |-> 0, error |-> "", result |-> NoResult]

\* --------------------------------------------------------- pure operators
\* the comparison of pot.ts:228 turned round
ExpiredInverted(tm, t) == t <= tm.expiry

\* pot.ts:228  new Date() >= tokenMinter.expiry
Expired(tm, t) == t >= tm.expiry

\* pot.ts:228  !tokenMinter || new Date() >= tokenMinter.expiry
NeedsRefresh(tm, t) == tm = NoMinter \/ Expired(tm, t)

\* pot.ts:184  new Date(Date.now() + estimatedTtlSecs * 1000)
MinterExpiry(t, estimatedTtlSecs) == t + estimatedTtlSecs * MsPerSec

\* the result expiring with the minter instead of after the fixed TTL
ResultExpiryOfMinter(t, tm) == tm.expiry

\* pot.ts:245  new Date(Date.now() + this.TOKEN_TTL_HOURS * 60 * 60 * 1000)
ResultExpiry(t, tm) == t + TOKEN_TTL_HOURS * 60 * 60 * 1000

\* what mintAsWebsafeString resolves to: a token bound to the minter and the input,
\* or the empty string
Minted(tm, input, value) == [minter |-> tm.id, input |-> input, value |-> value]

\* JavaScript truthiness of a token variable (pot.ts:234)
Truthy(tok) == tok # NoToken /\ tok.value # ""

\* getPoToken.ts:21-29  the catch branch: a 500 response carrying e.message
\* (the request's locals are gone once the response is built)
Fail(c, msg) == [IdleCall EXCEPT !.pc = "done", !.status = 500, !.error = msg]

\* pot.ts:241-246 and getPoToken.ts:10-20  the result and the 200 response
Succeed(c, t, videoIdToken) ==
    [IdleCall EXCEPT !.pc = "done", !.status = 200,
              !.result = [visitorDataToken |-> c.visitorDataToken,
                          visitorData |-> c.identifier,
                          videoIdToken |-> videoIdToken,
                          expiresAt |-> ResultExpiry(t, c.tokenMinter)]]

\* pot.ts:233  the call of tokenMinter.minter.mintAsWebsafeString(visitorData)
CallMint1(c, tm) == [c EXCEPT !.pc = "mint1", !.tokenMinter = tm]

\* what mintAsWebsafeString may do: throw, resolve to "", resolve to a token
MintOutcomes == {"threw", "", "pot"}

\* pot.ts:233-246  the continuation of the primary mint
AfterMint1(c, outcome, t) ==
    IF outcome = "threw" THEN Fail(c, "mintAsWebsafeString threw")
    ELSE LET c1 == [c EXCEPT !.visitorDataToken =
                                 Minted(c.tokenMinter, c.identifier, outcome)] IN
         IF ~Truthy(c1.visitorDataToken) THEN Fail(c1, "Unexpected empty POT")
         ELSE IF c.videoId # "" THEN [c1 EXCEPT !.pc = "mint2"]
         ELSE Succeed(c1, t, NoToken)

\* a secondary mint whose failure is swallowed: the result goes out without the token
AfterMint2Degrades(c, outcome, t) ==
    IF outcome = "threw" THEN Succeed(c, t, NoToken)
    ELSE Succeed(c, t, Minted(c.tokenMinter, c.videoId, outcome))

\* pot.ts:238-246  the continuation of the secondary mint
AfterMint2(c, outcome, t) ==
    IF outcome = "threw" THEN Fail(c, "mintAsWebsafeString(videoId) threw")
    ELSE Succeed(c, t, Minted(c.tokenMinter, c.videoId, outcome))

\* the secondary mint called on whatever the cache holds by then
SecondaryMinterFromCache(c, cache) == cache

\* pot.ts:227-238  the secondary mint is called on the local tokenMinter, the one the
\* primary mint was called on
SecondaryMinter(c, cache) == c.tokenMinter

\* a set that keeps an entry already stored
StoreIfAbsent(cache, tm) == IF cache = NoMinter THEN tm ELSE cache

\* pot.ts:189  this._minterCache.set("default", tokenMinter)
StoreMinter(cache, tm) == tm

\* the entry written before BG.WebPoMinter.create has settled
StoreBeforeCreate(cache, tm, created) == StoreMinter(cache, tm)

\* pot.ts:183-189  the entry is written once BG.WebPoMinter.create has resolved; when it
\* rejects the set is never reached
CreateAndStore(cache, tm, created) == IF created THEN StoreMinter(cache, tm) ELSE cache

\* pot.ts:227-233, 67-72  the cache lookup and the branch on it, up to the next
\* suspension: the mint on a hit; on a miss Innertube.create, or, with an instance
\* stored, the await of getInnertube's return
CheckCache(c, cache, it, t) ==
    LET c1 == [c EXCEPT !.cacheRead = TRUE] IN
    IF NeedsRefresh(cache, t)
    THEN IF it = NoInnertube
         THEN [c1 EXCEPT !.pc = "it_create"]
         ELSE [c1 EXCEPT !.pc = "it_ready", !.local = it]
    ELSE CallMint1([c1 EXCEPT !.fromCache = TRUE], cache)

\* the integrity token taken without the emptiness check
AfterExchangeUnchecked(c, integrityToken, estimatedTtlSecs, t) ==
    [c EXCEPT !.pc = "minter", !.integrityToken = integrityToken,
              !.expiry = MinterExpiry(t, estimatedTtlSecs)]

\* pot.ts:172-187  the GenerateIT response is read: an empty integrity token throws,
\* otherwise the expiry is computed and BG.WebPoMinter.create called
AfterExchange(c, integrityToken, estimatedTtlSecs, t) ==
    IF integrityToken = "" THEN Fail(c, "Unexpected empty integrity token")
    ELSE [c EXCEPT !.pc = "minter", !.integrityToken = integrityToken,
                   !.expiry = MinterExpiry(t, estimatedTtlSecs)]

\* the sandbox steps left out: the GenerateIT request sent straight after the challenge
LoadVMSkipsSandbox(c, ch, scriptOk) == [c EXCEPT !.challenge = ch, !.pc = "exchange"]

\* pot.ts:144-155  the interpreter script is run and BG.BotGuardClient.create called
LoadVM(c, ch, scriptOk) ==
    LET c1 == [c EXCEPT !.challenge = ch] IN
    IF ~ch.interpreterJavascript THEN Fail(c1, "Could not load VM")
    ELSE IF ~scriptOk THEN Fail(c1, "interpreter script threw")
    ELSE [c1 EXCEPT !.pc = "bgclient"]

\* the primary failure rethrown instead of falling back
NoFallback(c, why) == Fail(c, "Could not get Botguard challenge")

\* a catch branch that sends the att/get request once more before falling back
RetryPrimary(c, why) ==
    IF c.attGets < 2
    THEN [c EXCEPT !.pc = "att", !.attGets = c.attGets + 1, !.challenge = NoChallenge]
    ELSE [c EXCEPT !.pc = "fallback", !.primary = why, !.challenge = NoChallenge,
                   !.fallbacks = c.fallbacks + 1]

\* pot.ts:130-132  the catch branch: BG.Challenge.create is called
CallFallback(c, why) ==
    [c EXCEPT !.pc = "fallback", !.primary = why, !.challenge = NoChallenge,
              !.fallbacks = c.fallbacks + 1]

\* pot.ts:94-109, 130-132  with a context the att/get request is sent, without one
\* line 94 throws into the catch branch
SendAttGet(c) ==
    IF c.local.context
    THEN [c EXCEPT !.pc = "att", !.attGets = c.attGets + 1, !.local = NoInnertube]
    ELSE CallFallback([c EXCEPT !.local = NoInnertube], "noContext")

\* pot.ts:229-230, 142, 89-109  generateTokenMinter is entered with the context of the
\* instance getInnertube returned; with one getDescrambledChallenge goes on to the
\* request, without one it calls getInnertube (which returns the stored instance) and
\* awaits its return
StartRefresh(c, it) ==
    LET c1 == [c EXCEPT !.refreshes = c.refreshes + 1] IN
    IF c.local.context THEN SendAttGet(c1)
    ELSE [c1 EXCEPT !.pc = "ctx_ready", !.local = it]

\* a constructor that installs the globals every time
ConstructorUnguarded(flag, installs) == [hasDom |-> TRUE, installs |-> installs + 1]

\* pot.ts:45-65  the constructor: the JSDOM globals are installed unless the static
\* flag says they are, and the flag is set
Constructor(flag, installs) ==
    IF ~flag THEN [hasDom |-> TRUE, installs |-> installs + 1]
    ELSE [hasDom |-> flag, installs |-> installs]

\* ---------------------------------------------------------------- actions
\* the module before pot.ts:250 has run
NotLoaded ==
    /\ now = 0
    /\ minterCache = NoMinter
    /\ innertube = NoInnertube
    /\ nextMinter = 1
    /\ calls = [p \in Callers |-> IdleCall]
    /\ hasDom = FALSE
    /\ domInstalls = 0
    /\ instances = 0

\* pot.ts:250  the module is loaded: potManager has been constructed
Init ==
    /\ now = 0
    /\ minterCache = NoMinter
    /\ innertube = NoInnertube
    /\ nextMinter = 1
    /\ calls = [p \in Callers |-> IdleCall]
    /\ hasDom = Constructor(FALSE, 0).hasDom
    /\ domInstalls = Constructor(FALSE, 0).installs
    /\ instances = 1

\* pot.ts:45-65, 250  new PoTokenManager()
Construct ==
    /\ instances < MaxInstances
    /\ hasDom' = Constructor(hasDom, domInstalls).hasDom
    /\ domInstalls' = Constructor(hasDom, domInstalls).installs
    /\ instances' = instances + 1
    /\ UNCHANGED <<now, minterCache, innertube, nextMinter, calls>>

\* Date.now() advances
Tick ==
    /\ now < MaxTime * MsPerSec
    /\ now' = now + MsPerSec
    /\ UNCHANGED <<minterCache, innertube, nextMinter, calls, hasDom, domInstalls, instances>>

\* whether a request is in flight
Active(c) == c.pc \notin {"idle", "done"}

\* the check of pot.ts:217 left out
FromProviderUnchecked(c, it, cache, t) ==
    CheckCache([c EXCEPT !.provider = "ok", !.identifier = c.local.visitorData,
                         !.local = NoInnertube], cache, it, t)

\* pot.ts:76-83, 216-233  generateVisitorData reads the visitor data of the instance
\* getInnertube returned (a missing session.context throws into its catch); with none
\* generatePoToken throws, otherwise it goes on to the cache lookup, for which
\* this.innertube is read again
FromProvider(c, it, cache, t) ==
    IF c.local.visitorData = ""
    THEN Fail([c EXCEPT !.provider = "noVisitorData"], "Unable to generate visitor data")
    ELSE CheckCache([c EXCEPT !.provider = "ok", !.identifier = c.local.visitorData,
                              !.local = NoInnertube], cache, it, t)

\* getPoToken.ts:4-8 and pot.ts:214-233  a request arrives; generatePoToken runs to
\* its first await: with visitor data the cache lookup and what it calls, without
\* Innertube.create or the await of getInnertube's return (pot.ts:76)
Start(p) ==
    /\ instances >= 1
    /\ calls[p].pc \in {"idle", "done"}
    /\ p # FirstCaller => Active(calls[FirstCaller])
    /\ nextMinter <= MaxMinters
    /\ \E vd \in VisitorInputs, vid \in VideoInputs :
         LET c == [IdleCall EXCEPT !.visitorData = vd, !.videoId = vid,
                                   !.identifier = vd] IN
         calls' = [calls EXCEPT ![p] =
            IF vd # "" THEN CheckCache(c, minterCache, innertube, now)
            ELSE IF innertube = NoInnertube THEN [c EXCEPT !.pc = "vd_create"]
            ELSE [c EXCEPT !.pc = "vd_ready", !.local = innertube]]
    /\ UNCHANGED <<now, minterCache, innertube, nextMinter, hasDom, domInstalls, instances>>

\* pot.ts:69-71, 76  Innertube.create, called from generateVisitorData, settles: the
\* instance is stored and returned
VisitorDataCreated(p) ==
    /\ calls[p].pc = "vd_create"
    /\ \/ /\ calls' = [calls EXCEPT ![p] =
                Fail([@ EXCEPT !.provider = "threw"], "Unable to generate visitor data")]
          /\ UNCHANGED innertube
       \/ \E it \in InnertubeInstances :
            /\ innertube' = it
            /\ calls' = [calls EXCEPT ![p] = [@ EXCEPT !.pc = "vd_ready", !.local = it]]
    /\ UNCHANGED <<now, minterCache, nextMinter, hasDom, domInstalls, instances>>

\* pot.ts:76-78, 216-233  generateVisitorData resumes with the instance and returns;
\* generatePoToken resumes up to its next await
VisitorDataReady(p) ==
    /\ calls[p].pc = "vd_ready"
    /\ calls' = [calls EXCEPT ![p] = FromProvider(calls[p], innertube, minterCache, now)]
    /\ UNCHANGED <<now, minterCache, innertube, nextMinter, hasDom, domInstalls, instances>>

\* pot.ts:69-71, 229  Innertube.create, called from generatePoToken, settles: the
\* instance is stored and returned
ContextCreated(p) ==
    /\ calls[p].pc = "it_create"
    /\ \/ /\ calls' = [calls EXCEPT ![p] = Fail(@, "Innertube.create threw")]
          /\ UNCHANGED innertube
       \/ \E it \in InnertubeInstances :
            /\ innertube' = it
            /\ calls' = [calls EXCEPT ![p] = [@ EXCEPT !.pc = "it_ready", !.local = it]]
    /\ UNCHANGED <<now, minterCache, nextMinter, hasDom, domInstalls, instances>>

\* pot.ts:229-230, 89-109  generatePoToken resumes with the instance and calls
\* generateTokenMinter
ContextReady(p) ==
    /\ calls[p].pc = "it_ready"
    /\ calls' = [calls EXCEPT ![p] = StartRefresh(calls[p], innertube)]
    /\ UNCHANGED <<now, minterCache, innertube, nextMinter, hasDom, domInstalls, instances>>

\* pot.ts:91-109, 130-132  getDescrambledChallenge resumes with the instance it asked
\* getInnertube for
ContextRetried(p) ==
    /\ calls[p].pc = "ctx_ready"
    /\ calls' = [calls EXCEPT ![p] = SendAttGet(calls[p])]
    /\ UNCHANGED <<now, minterCache, innertube, nextMinter, hasDom, domInstalls, instances>>

\* pot.ts:96-114, 130-132  the att/get request settles; of the envelope's fields
\* program, globalName and interpreterHash are kept (113, 121-124), the experiment-state
\* blob is not
AttGet(p) ==
    /\ calls[p].pc = "att"
    /\ \/ \E why \in {"requestError", "noEnvelope", "noInterpreterUrl"} :
            calls' = [calls EXCEPT ![p] = CallFallback(@, why)]
       \/ \E e \in Envelopes :
            calls' = [calls EXCEPT ![p] =
                [@ EXCEPT !.pc = "interp",
                          !.challenge = [program |-> e.program, globalName |-> e.globalName,
                                         interpreterHash |-> e.interpreterHash,
                                         interpreterJavascript |-> FALSE,
                                         clientExperimentsStateBlob |-> FALSE]]]
    /\ UNCHANGED <<now, minterCache, innertube, nextMinter, hasDom, domInstalls, instances>>

\* pot.ts:116-129, 130-132, 144-155  the interpreter fetch settles
InterpreterFetch(p) ==
    /\ calls[p].pc = "interp"
    /\ \/ calls' = [calls EXCEPT ![p] =
                CallFallback(@, "interpreterFetchError")]
       \/ \E js \in BOOLEAN, scriptOk \in BOOLEAN :
            calls' = [calls EXCEPT ![p] =
                LoadVM([@ EXCEPT !.primary = "ok"],
                       [calls[p].challenge EXCEPT !.interpreterJavascript = js], scriptOk)]
    /\ UNCHANGED <<now, minterCache, innertube, nextMinter, hasDom, domInstalls, instances>>

\* pot.ts:132-134, 144-155  BG.Challenge.create settles
Fallback(p) ==
    /\ calls[p].pc = "fallback"
    /\ \/ calls' = [calls EXCEPT ![p] =
                Fail([@ EXCEPT !.fallback = "threw"], "BG.Challenge.create threw")]
       \/ calls' = [calls EXCEPT ![p] =
                Fail([@ EXCEPT !.fallback = "nothing"], "Could not get Botguard challenge")]
       \/ \E ch \in CreatedChallenges, scriptOk \in BOOLEAN :
            calls' = [calls EXCEPT ![p] =
                LoadVM([@ EXCEPT !.fallback = "ok", !.primary = "failed"], ch, scriptOk)]
    /\ UNCHANGED <<now, minterCache, innertube, nextMinter, hasDom, domInstalls, instances>>

\* pot.ts:151-158  BG.BotGuardClient.create settles; snapshot is called
BotGuardCreated(p) ==
    /\ calls[p].pc = "bgclient"
    /\ \/ calls' = [calls EXCEPT ![p] = Fail(@, "BG.BotGuardClient.create threw")]
       \/ calls' = [calls EXCEPT ![p] = [@ EXCEPT !.pc = "snapshot"]]
    /\ UNCHANGED <<now, minterCache, innertube, nextMinter, hasDom, domInstalls, instances>>

\* pot.ts:158-170  snapshot settles; the GenerateIT request is sent
Snapshot(p) ==
    /\ calls[p].pc = "snapshot"
    /\ \/ calls' = [calls EXCEPT ![p] = Fail(@, "snapshot threw")]
       \/ calls' = [calls EXCEPT ![p] =
                [@ EXCEPT !.pc = "exchange", !.exchanges = calls[p].exchanges + 1]]
    /\ UNCHANGED <<now, minterCache, innertube, nextMinter, hasDom, domInstalls, instances>>

\* pot.ts:160-187  the GenerateIT request settles; BG.WebPoMinter.create is called
Exchange(p) ==
    /\ calls[p].pc = "exchange"
    /\ \/ calls' = [calls EXCEPT ![p] = Fail(@, "GenerateIT request failed")]
       \/ \E integrityToken \in IntegrityTokens, ttl \in 0..MaxTtlSecs :
            calls' = [calls EXCEPT ![p] = AfterExchange(calls[p], integrityToken, ttl, now)]
    /\ UNCHANGED <<now, minterCache, innertube, nextMinter, hasDom, domInstalls, instances>>

\* pot.ts:183-190  BG.WebPoMinter.create settles: the minter is stored and returned
MinterCreated(p) ==
    /\ calls[p].pc = "minter"
    /\ \E created \in BOOLEAN :
         LET tm == [id |-> nextMinter, expiry |-> calls[p].expiry,
                    integrityToken |-> calls[p].integrityToken] IN
         /\ minterCache' = CreateAndStore(minterCache, tm, created)
         /\ nextMinter' = IF created THEN nextMinter + 1 ELSE nextMinter
         /\ calls' = [calls EXCEPT ![p] =
               IF created
               THEN [calls[p] EXCEPT !.pc = "refreshed", !.stored = TRUE,
                                     !.tokenMinter = tm, !.challenge = NoChallenge,
                                     !.expiry = 0 - 1, !.integrityToken = ""]
               ELSE Fail(calls[p], "BG.WebPoMinter.create threw")]
    /\ UNCHANGED <<now, innertube, hasDom, domInstalls, instances>>

\* pot.ts:190, 230-233  generateTokenMinter has returned; generatePoToken resumes and
\* calls the primary mint on the minter it was given
Refreshed(p) ==
    /\ calls[p].pc = "refreshed"
    /\ calls' = [calls EXCEPT ![p] = CallMint1(calls[p], calls[p].tokenMinter)]
    /\ UNCHANGED <<now, minterCache, innertube, nextMinter, hasDom, domInstalls, instances>>

\* pot.ts:233-246  the primary mint settles
Mint1(p) ==
    /\ calls[p].pc = "mint1"
    /\ \E outcome \in MintOutcomes :
         LET c == AfterMint1(calls[p], outcome, now) IN
         calls' = [calls EXCEPT ![p] =
            IF c.pc = "mint2"
            THEN [c EXCEPT !.tokenMinter = SecondaryMinter(c, minterCache)]
            ELSE c]
    /\ UNCHANGED <<now, minterCache, innertube, nextMinter, hasDom, domInstalls, instances>>

\* pot.ts:238-246  the secondary mint settles
Mint2(p) ==
    /\ calls[p].pc = "mint2"
    /\ \E outcome \in MintOutcomes :
         calls' = [calls EXCEPT ![p] = AfterMint2(calls[p], outcome, now)]
    /\ UNCHANGED <<now, minterCache, innertube, nextMinter, hasDom, domInstalls, instances>>

Next ==
    \/ Tick
    \/ \E p \in Callers :
         \/ Start(p)
         \/ VisitorDataCreated(p)
         \/ VisitorDataReady(p)
         \/ ContextCreated(p)
         \/ ContextReady(p)
         \/ ContextRetried(p)
         \/ AttGet(p)
         \/ InterpreterFetch(p)
         \/ Fallback(p)
         \/ BotGuardCreated(p)
         \/ Snapshot(p)
         \/ Exchange(p)
         \/ MinterCreated(p)
         \/ Refreshed(p)
         \/ Mint1(p)
         \/ Mint2(p)

Spec == Init /\ [][Next]_vars

\* the module being loaded, further instances being constructed at any time, and the
\* requests of one caller
LoadNext ==
    \/ Construct
    \/ Tick
    \/ \E p \in {FirstCaller} :
         \/ Start(p)
         \/ VisitorDataCreated(p)
         \/ VisitorDataReady(p)
         \/ ContextCreated(p)
         \/ ContextReady(p)
         \/ ContextRetried(p)
         \/ AttGet(p)
         \/ InterpreterFetch(p)
         \/ Fallback(p)
         \/ BotGuardCreated(p)
         \/ Snapshot(p)
         \/ Exchange(p)
         \/ MinterCreated(p)
         \/ Refreshed(p)
         \/ Mint1(p)
         \/ Mint2(p)

LoadSpec == NotLoaded /\ [][LoadNext]_vars

\* ================================================================= claims
\* the callers whose request is inside generateTokenMinter
InFlight == {p \in Callers : calls[p].pc \in RefreshPcs}

\* the response of a finished request
Done(c) == c.pc = "done"

\* p's request takes a step to its response
Finishes(p) == calls[p].pc # "done" /\ calls'[p].pc = "done"

\* p's request takes a step
Steps(p) == calls'[p] # calls[p]

SixHoursMs == 6 * 60 * 60 * 1000

\* C1: single-flight -- at no time are two refreshes (challenge fetch, sandbox
\* execution, integrity exchange) for the one cache key in flight.
C1_SingleFlight == Cardinality(InFlight) <= 1

\* the parts of C2: the cache check of a hit, and every later step of that call
C2_HitAtCheck(p) ==
    (/\ ~Active(calls[p]) /\ Active(calls'[p])
     /\ calls'[p].visitorData # ""
     /\ minterCache # NoMinter /\ now < minterCache.expiry)
    => /\ calls'[p].pc = "mint1"
       /\ calls'[p].fromCache
       /\ calls'[p].tokenMinter = minterCache
       /\ calls'[p].refreshes = 0

C2_HitCallSteps(p) ==
    (calls[p].fromCache /\ Steps(p))
    => /\ minterCache' = minterCache
       /\ nextMinter' = nextMinter
       /\ innertube' = innertube
       /\ calls'[p].pc \in {"mint2", "done"}
       /\ calls'[p].pc = "mint2" =>
            /\ calls'[p].fromCache /\ calls'[p].refreshes = 0
            /\ calls'[p].tokenMinter = calls[p].tokenMinter
            /\ calls'[p].visitorDataToken.minter = calls[p].tokenMinter.id
       /\ calls'[p].status = 200 =>
            /\ calls'[p].result.visitorDataToken.minter = calls[p].tokenMinter.id
            /\ calls'[p].result.videoIdToken # NoToken =>
                 calls'[p].result.videoIdToken.minter = calls[p].tokenMinter.id

\* C2: cache hit -- a generate call with an identifier supplied whose cache check
\* finds a stored minter at a time before its expiry starts no refresh, goes straight
\* to the primary mint with the stored minter, and no step of that call changes the
\* cache entry or enters the refresh pipeline; its tokens are minted by that minter.
C2_CacheHit == [][\A p \in Callers : C2_HitAtCheck(p) /\ C2_HitCallSteps(p)]_vars

\* two calls are minting with the same stored, live minter
C2_Witness ==
    /\ \A p \in Callers : calls[p].fromCache /\ calls[p].tokenMinter = minterCache
    /\ \E p \in Callers : calls[p].pc = "mint2"
    /\ now < minterCache.expiry

\* a step of p that calls mintAsWebsafeString
C3_MintCalled(p) ==
    calls'[p].pc \in {"mint1", "mint2"} /\ calls'[p].pc # calls[p].pc

\* C3: a minter is never used to mint at a time now >= its expiry -- at every call of
\* mintAsWebsafeString (primary or secondary, cached or fresh minter) the current time
\* is strictly before the expiry of the minter used.
C3_NeverMintExpired ==
    [][\A p \in Callers : C3_MintCalled(p) => now' < calls'[p].tokenMinter.expiry]_vars

\* C4: eviction on minting failure -- when the primary mint on a cached minter returns
\* empty output, the cache entry is removed before the error is returned.
C4_EvictOnEmptyMint ==
    [][\A p \in Callers :
         (/\ calls[p].pc = "mint1" /\ calls[p].fromCache
          /\ Finishes(p) /\ calls'[p].error = "Unexpected empty POT")
         => minterCache' # calls[p].tokenMinter]_vars

\* the messages of the errors by stage
PrimaryFailures ==
    {"noContext", "requestError", "noEnvelope", "noInterpreterUrl", "interpreterFetchError"}
AttestationUnavailable == {"BG.Challenge.create threw", "Could not get Botguard challenge"}
SandboxLoadErrors == {"Could not load VM", "interpreter script threw"}
AfterLoadErrors ==
    {"BG.BotGuardClient.create threw", "snapshot threw", "GenerateIT request failed",
     "Unexpected empty integrity token", "BG.WebPoMinter.create threw",
     "mintAsWebsafeString threw", "mintAsWebsafeString(videoId) threw",
     "Unexpected empty POT"}

\* the parts of C5: a step into or out of the primary path, the fallback settling, and the
\* steps of a request whose fallback yielded a challenge
C5_PrimaryFailureFallsBack(p) ==
    (calls[p].pc \in {"it_ready", "ctx_ready", "att", "interp"} /\ Steps(p))
    => /\ minterCache' = minterCache
       /\ \/ /\ calls[p].pc \in {"it_ready", "ctx_ready"} /\ calls'[p].pc = "att"
             /\ calls'[p].primary = "none"
          \/ /\ calls[p].pc = "it_ready" /\ calls'[p].pc = "ctx_ready"
             /\ calls'[p].primary = "none" /\ calls'[p].fallback = "none"
          \/ calls[p].pc = "att" /\ calls'[p].pc = "interp" /\ calls'[p].primary = "none"
          \/ /\ calls'[p].pc = "fallback"
             /\ calls'[p].primary \in PrimaryFailures
             /\ calls'[p].fallback = "none"
          \/ /\ calls[p].pc = "interp" /\ calls'[p].pc = "bgclient"
             /\ calls'[p].primary = "ok" /\ calls'[p].fallback = "none"
          \/ /\ calls[p].pc = "interp" /\ calls'[p].pc = "done"
             /\ calls'[p].error \in SandboxLoadErrors

C5_FallbackSettles(p) ==
    (calls[p].pc = "fallback" /\ Steps(p))
    => /\ minterCache' = minterCache
       /\ ~calls[p].stored
       /\ \/ /\ calls'[p].pc = "bgclient" /\ calls'[p].fallback = "ok"
             /\ calls'[p].challenge \in CreatedChallenges
             /\ calls'[p].challenge.interpreterJavascript
          \/ /\ calls'[p].pc = "done" /\ calls'[p].status = 500
             /\ calls'[p].result = NoResult
             /\ calls'[p].error \in AttestationUnavailable \cup SandboxLoadErrors

C5_AfterFallback(p) ==
    (calls[p].fallback = "ok" /\ Steps(p))
    => /\ calls[p].pc = "minter" /\ calls'[p].pc = "refreshed" =>
            calls'[p].stored /\ minterCache' = calls'[p].tokenMinter
       /\ calls[p].pc = "refreshed" =>
            calls'[p].pc = "mint1" /\ calls'[p].tokenMinter = calls[p].tokenMinter
       /\ calls'[p].pc = "done" =>
            \/ /\ calls'[p].status = 200 /\ calls[p].stored
               /\ calls'[p].result.visitorDataToken.value = "pot"
            \/ calls'[p].status = 500 /\ calls'[p].error \in AfterLoadErrors

\* C5: fallback transparency -- a failure of the primary challenge path, whatever its
\* reason, never ends the request: BG.Challenge.create is called.  When that yields a
\* challenge the request goes on exactly as after a primary success: it can only fail
\* at a later stage, and when none fails it ends 200 with a minter stored.  When
\* BG.Challenge.create throws or yields nothing the request ends 500 with the
\* attestation-unavailable error and the cache is untouched.
C5_FallbackTransparency ==
    [][\A p \in Callers : /\ C5_PrimaryFailureFallsBack(p)
                          /\ C5_FallbackSettles(p)
                          /\ C5_AfterFallback(p)]_vars

\* after a failed primary path the fallback yielded a challenge, and the request has
\* stored its minter and minted its primary token with it
C5_Witness ==
    \E p \in Callers :
        /\ calls[p].pc = "mint2"
        /\ calls[p].primary = "failed" /\ calls[p].fallback = "ok"
        /\ calls[p].stored /\ minterCache = calls[p].tokenMinter
        /\ calls[p].visitorDataToken.value = "pot"

\* the parts of C6: a step in which identification fails, and what holds of a request
\* before and after identification
C6_ProviderFailure(p) ==
    (/\ Steps(p)
     /\ \/ calls[p].pc = "vd_create" /\ calls'[p].pc = "done"
        \/ calls[p].pc = "vd_ready" /\ calls[p].local.visitorData = ""
        \/ ~Active(calls[p]) /\ calls'[p].pc = "done")
    => /\ calls'[p].pc = "done"
       /\ calls'[p].status = 500
       /\ calls'[p].error = "Unable to generate visitor data"
       /\ calls'[p].result = NoResult
       /\ minterCache' = minterCache
       /\ nextMinter' = nextMinter

C6_Identified(c) ==
    /\ c.pc \in {"vd_create", "vd_ready"} =>
         c.visitorData = "" /\ ~c.cacheRead /\ c.refreshes = 0 /\ c.tokenMinter = NoMinter
    /\ (Active(c) /\ c.pc \notin {"vd_create", "vd_ready"}) =>
         c.identifier # "" /\ c.cacheRead

\* C6: generate with no identifier while the session-context provider fails or yields
\* no identifier ends with "Unable to generate visitor data" without having read or
\* written the minter cache and without having started a refresh; no request goes past
\* identification with an empty identifier.
C6_IdentifierUnavailable ==
    /\ [](\A p \in Callers : C6_Identified(calls[p]))
    /\ [][\A p \in Callers : C6_ProviderFailure(p)]_vars

\* a request failed for want of an identifier while a minter stays stored
C6_Witness ==
    \E p \in Callers :
        /\ Done(calls[p]) /\ calls[p].error = "Unable to generate visitor data"
        /\ minterCache # NoMinter

\* C7: every result returned by generate has a non-empty primaryToken and, when a
\* subIdentifier was given, a non-empty secondaryToken.
C7_NoEmptyToken ==
    \A p \in Callers :
        (Done(calls[p]) /\ calls[p].status = 200)
        => /\ calls[p].result.visitorDataToken.value = "pot"
           /\ calls[p].result.videoIdToken # NoToken =>
                calls[p].result.videoIdToken.value = "pot"

\* the response of one request
C8_Response(c) ==
    /\ c.status \in {0, 200, 500}
    /\ Done(c) <=> c.status # 0
    /\ c.status = 0 => c.error = "" /\ c.result = NoResult
    /\ c.status = 500 => c.error # "" /\ c.result = NoResult
    /\ c.status = 200 =>
         /\ c.error = ""
         /\ c.result.visitorDataToken # NoToken
         /\ c.result.visitorDataToken.value # ""
         /\ c.result.visitorData # ""
         /\ c.result.expiresAt > now

C8_EveryResponse == \A p \in Callers : C8_Response(calls[p])

\* a token a mint has produced
C8_Token(tok) == tok # NoToken /\ tok.value # ""

\* the step that ends p's request: a 500 with a message and no result, or, from a mint
\* that settled, a 200 with the full result -- the primary token, the identifier, and
\* the secondary token exactly when a sub-identifier was given; a mint that yields no
\* token is a stage that failed
C8_Outcome(p) ==
    Finishes(p)
    => \/ /\ calls'[p].status = 500
          /\ calls'[p].error # "" /\ calls'[p].result = NoResult
       \/ /\ calls'[p].status = 200 /\ calls'[p].error = ""
          /\ calls[p].pc \in {"mint1", "mint2"}
          /\ C8_Token(calls'[p].result.visitorDataToken)
          /\ calls'[p].result.visitorData = calls[p].identifier
          /\ calls[p].videoId = "" => calls'[p].result.videoIdToken = NoToken
          /\ calls[p].videoId # "" => C8_Token(calls'[p].result.videoIdToken)

\* C8: no partial results -- when any stage of a generate call fails (session context,
\* both challenge paths, sandbox execution, integrity exchange, minting) the call
\* returns an error and no result; every request ends in exactly one response, status
\* 200 carrying the full result or status 500 carrying an error message, and no other
\* status is produced.
C8_NoPartialResults ==
    []C8_EveryResponse /\ [][\A p \in Callers : C8_Outcome(p)]_vars

\* the parts of C9: the step that builds the result, and the identifier of a request
C9_Result(p) ==
    (calls[p].pc \in {"mint1", "mint2"} /\ calls'[p].status = 200)
    => /\ calls'[p].result.expiresAt = now' + SixHoursMs
       /\ calls'[p].result.visitorData = calls[p].identifier
       /\ calls'[p].result.visitorDataToken.input = calls[p].identifier
       /\ calls'[p].result.visitorDataToken.minter = calls[p].tokenMinter.id

C9_Identifier(c) == (Active(c) /\ c.visitorData # "") => c.identifier = c.visitorData

\* C9: the result's identifier is the identifier the primary token was minted for (the
\* caller's own when one was given) and expiresAt is the time the result is built plus
\* six hours, whatever the minter's expiry and wherever the minter came from.
C9_ResultFields ==
    /\ [](\A p \in Callers : C9_Identifier(calls[p]))
    /\ [][\A p \in Callers : C9_Result(p)]_vars

\* a result built at time 1000 for the caller's identifier with a minter whose TTL was 0
C9_Witness ==
    \E p \in Callers :
        /\ calls[p].status = 200
        /\ calls[p].result.visitorData = "visitor-1"
        /\ calls[p].result.expiresAt = MsPerSec + SixHoursMs
        /\ minterCache.id = calls[p].result.visitorDataToken.minter
        /\ minterCache.expiry = MsPerSec

\* the parts of C10: the cache check of a miss, the way into generateTokenMinter, the
\* store, the mints after it, and the
\* refresh count of a request
C10_MissAtCheck(p) ==
    (/\ ~calls[p].cacheRead /\ calls'[p].cacheRead
     /\ (minterCache = NoMinter \/ now >= minterCache.expiry))
    => /\ calls'[p].pc \in {"it_create", "it_ready"}
       /\ ~calls'[p].fromCache
       /\ calls'[p].tokenMinter = NoMinter
       /\ calls'[p].refreshes = 0

C10_EntersRefresh(p) ==
    /\ (calls[p].pc = "it_create" /\ Steps(p)) =>
         calls'[p].pc \in {"it_ready", "done"} /\ calls'[p].status # 200
    /\ (calls[p].pc = "it_ready" /\ Steps(p)) =>
         /\ calls'[p].pc \in {"att", "ctx_ready"}
         /\ calls[p].refreshes = 0 /\ calls'[p].refreshes = 1
         /\ calls'[p].tokenMinter = NoMinter
    /\ (calls[p].pc = "ctx_ready" /\ Steps(p)) =>
         /\ calls'[p].pc \in {"att", "fallback"}
         /\ calls'[p].refreshes = 1
         /\ calls'[p].tokenMinter = NoMinter

C10_Store(p) ==
    (calls[p].pc = "minter" /\ calls'[p].pc = "refreshed")
    => /\ calls[p].refreshes = 1 /\ calls'[p].refreshes = 1
       /\ calls'[p].stored
       /\ minterCache' = calls'[p].tokenMinter
       /\ minterCache'.id # minterCache.id
       /\ minterCache'.id = nextMinter /\ nextMinter' = nextMinter + 1
       /\ minterCache'.expiry = calls[p].expiry

C10_MintsWithNew(p) ==
    (calls[p].stored /\ Steps(p))
    => /\ Active(calls'[p]) =>
            calls'[p].tokenMinter = calls[p].tokenMinter /\ calls'[p].stored
       /\ calls[p].pc = "refreshed" => calls'[p].pc = "mint1"
       /\ calls'[p].pc = "mint2" =>
            calls'[p].visitorDataToken.minter = calls[p].tokenMinter.id
       /\ calls'[p].status = 200 =>
            /\ calls'[p].result.visitorDataToken.minter = calls[p].tokenMinter.id
            /\ calls'[p].result.videoIdToken # NoToken =>
                 calls'[p].result.videoIdToken.minter = calls[p].tokenMinter.id

C10_Refreshing(c) ==
    /\ c.refreshes <= 1
    /\ c.pc \in RefreshPcs => c.refreshes = 1 /\ ~c.fromCache /\ ~c.stored
    /\ c.pc \in {"it_create", "it_ready"} => c.refreshes = 0 /\ ~c.fromCache /\ ~c.stored
    /\ c.pc = "refreshed" => c.stored
    /\ c.pc \in {"mint1", "mint2"} => (c.stored <=> ~c.fromCache)
    /\ c.stored => c.refreshes = 1 /\ c.tokenMinter # NoMinter

\* C10: rebuild on miss or expiry -- a cache check that finds no entry, or an entry
\* with now >= its expiry, never mints with what it found: the call enters the refresh
\* pipeline, once; when the refresh completes the new minter (a new object) replaces
\* the cache entry and is the minter the call's tokens are minted with.
C10_RebuildOnMiss ==
    /\ [](\A p \in Callers : C10_Refreshing(calls[p]))
    /\ [][\A p \in Callers : /\ C10_MissAtCheck(p) /\ C10_EntersRefresh(p)
                              /\ C10_Store(p) /\ C10_MintsWithNew(p)]_vars

\* a lone request found minter 1 expired, rebuilt, and is minting with minter 2, which
\* is now the cache entry
C10_Witness ==
    \E p \in Callers :
        /\ \A q \in Callers \ {p} : ~Active(calls[q])
        /\ calls[p].pc = "mint1" /\ calls[p].stored
        /\ calls[p].tokenMinter.id = 2
        /\ minterCache = calls[p].tokenMinter

\* the order of one step of p's request
C11_Order(p) ==
    Steps(p)
    => /\ calls'[p].pc = "att" =>
            calls[p].pc \in {"it_ready", "ctx_ready"} /\ calls'[p].challenge = NoChallenge
       /\ calls'[p].pc = "ctx_ready" => calls[p].pc = "it_ready"
       /\ calls'[p].pc = "interp" => calls[p].pc = "att"
       /\ calls'[p].pc = "fallback" => calls[p].pc \in {"ctx_ready", "att", "interp"}
       /\ calls'[p].pc = "bgclient" =>
            /\ calls[p].pc \in {"interp", "fallback"}
            /\ calls'[p].challenge.interpreterJavascript
            /\ calls'[p].primary = "ok" \/ calls'[p].fallback = "ok"
       /\ calls'[p].pc = "snapshot" => calls[p].pc = "bgclient"
       /\ calls'[p].pc = "exchange" => calls[p].pc = "snapshot"
       /\ calls'[p].pc = "minter" => calls[p].pc = "exchange"
       /\ (calls'[p].stored /\ ~calls[p].stored) =>
            calls[p].pc = "minter" /\ calls'[p].pc = "refreshed"
       /\ calls'[p].pc = "refreshed" => calls[p].pc = "minter" /\ calls'[p].stored
       /\ minterCache' # minterCache => calls[p].pc = "minter"
       /\ calls'[p].pc = "mint1" =>
            \/ calls[p].pc = "refreshed" /\ calls'[p].stored
            \/ calls[p].pc \in {"idle", "done", "vd_ready"} /\ calls'[p].fromCache
       /\ calls'[p].pc = "mint2" => calls[p].pc = "mint1"

\* C11: within one refresh cycle the steps happen in a fixed order, none skipped: the
\* challenge (primary or fallback) is obtained before the sandbox runs, the sandbox has
\* produced the signal bundle before the integrity exchange is sent, the exchange has
\* completed before the minter is stored, and no mint on the new minter comes before.
C11_RefreshOrder == [][\A p \in Callers : C11_Order(p)]_vars

\* a request went through the primary path, the sandbox, the exchange and the store,
\* and has minted its primary token
C11_Witness ==
    \E p \in Callers :
        /\ calls[p].pc = "mint2" /\ calls[p].stored
        /\ calls[p].primary = "ok" /\ calls[p].fallback = "none"
        /\ calls[p].visitorDataToken.minter = calls[p].tokenMinter.id

\* every field of a challenge descriptor is present
C12_Complete(ch) ==
    /\ ch.program /\ ch.globalName /\ ch.interpreterHash
    /\ ch.interpreterJavascript /\ ch.clientExperimentsStateBlob

\* C12: the sandbox never starts on an incomplete challenge descriptor: a request whose
\* interpreter script has been run and whose program is being or has been loaded
\* (BG.BotGuardClient.create called) holds a descriptor with every field present.
C12_NoIncompleteChallenge ==
    \A p \in Callers :
        calls[p].pc \in {"bgclient", "snapshot", "exchange", "minter"}
        => C12_Complete(calls[p].challenge)

\* no minter is being created from, or stored with, an empty integrity token
C13_NoMinterWithoutToken ==
    /\ \A p \in Callers : calls[p].pc = "minter" => calls[p].integrityToken # ""
    /\ minterCache # NoMinter => minterCache.integrityToken # ""

\* the step that ends p's request with the integrity-exchange error is the exchange's,
\* it creates and stores nothing, and the request has minted nothing
C13_EmptyTokenStep(p) ==
    (Finishes(p) /\ calls'[p].error = "Unexpected empty integrity token")
    => /\ calls[p].pc = "exchange"
       /\ calls'[p].status = 500 /\ calls'[p].result = NoResult
       /\ calls[p].visitorDataToken = NoToken /\ calls'[p].visitorDataToken = NoToken
       /\ ~calls'[p].stored
       /\ minterCache' = minterCache /\ nextMinter' = nextMinter

\* C13: when the integrity exchange returns an empty or absent token the refresh fails
\* with the integrity-exchange error: no minter is created, nothing is written to the
\* cache, and the generate call that triggered the refresh performs no mint.
C13_EmptyIntegrityToken ==
    []C13_NoMinterWithoutToken /\ [][\A p \in Callers : C13_EmptyTokenStep(p)]_vars

\* a first request has failed on an empty integrity token and the cache is still empty
C13_Witness ==
    \E p \in Callers :
        /\ Done(calls[p]) /\ calls[p].error = "Unexpected empty integrity token"
        /\ calls[p].status = 500
        /\ minterCache = NoMinter /\ nextMinter = 1

\* what a request inside generatePoToken has attempted so far: the primary path, the
\* fallback and the exchange request at most once each, the fallback only after the
\* primary path of this refresh failed, the exchange only on a challenge
C14_AtMostOnce(c) ==
    /\ c.refreshes <= 1 /\ c.attGets <= 1 /\ c.fallbacks <= 1 /\ c.exchanges <= 1
    /\ c.attGets <= c.refreshes
    /\ c.pc = "ctx_ready" => c.attGets = 0 /\ c.fallbacks = 0 /\ c.exchanges = 0
    /\ c.pc \in {"att", "interp"} => c.attGets = 1 /\ c.fallbacks = 0
    /\ c.pc \in RefreshPcs => c.refreshes = 1
    /\ c.fallbacks = 1 <=> c.primary \in PrimaryFailures \cup {"failed"}
    /\ c.fallbacks = 1 => c.refreshes = 1
    /\ c.exchanges = 1 => c.primary = "ok" \/ c.fallback = "ok"
    /\ c.pc \in {"exchange", "minter"} => c.exchanges = 1

C14_EachAtMostOnce == \A p \in Callers : C14_AtMostOnce(calls[p])

\* the pcs a refresh step may lead to, other than the response
C14_Forward(pc) ==
    CASE pc = "ctx_ready" -> {"att", "fallback"}
      [] pc = "att" -> {"interp", "fallback"}
      [] pc = "interp" -> {"fallback", "bgclient"}
      [] pc = "fallback" -> {"bgclient"}
      [] pc = "bgclient" -> {"snapshot"}
      [] pc = "snapshot" -> {"exchange"}
      [] pc = "exchange" -> {"minter"}
      [] pc = "minter" -> {"refreshed"}
      [] OTHER -> {}

\* a refresh step either moves forward or ends the request with its error; after the
\* sandbox has started nothing is attempted again
C14_NoSecondAttempt(p) ==
    (calls[p].pc \in RefreshPcs /\ Steps(p))
    => \/ calls'[p].pc = "done" /\ calls'[p].status = 500
       \/ /\ calls'[p].pc \in C14_Forward(calls[p].pc)
          /\ calls'[p].refreshes = calls[p].refreshes
          /\ calls'[p].attGets >= calls[p].attGets
          /\ calls[p].pc # "ctx_ready" => calls'[p].attGets = calls[p].attGets
          /\ calls'[p].fallbacks >= calls[p].fallbacks
          /\ calls'[p].exchanges >= calls[p].exchanges
          /\ calls[p].pc \in {"bgclient", "snapshot", "exchange", "minter"}
             => calls'[p].fallbacks = calls[p].fallbacks

\* C14: no retry beyond the one fallback: during one refresh the primary challenge path
\* is attempted at most once, the secondary path at most once and only after the primary
\* path of that refresh failed, and the exchange request is sent at most once; a failure
\* of the sandbox or the exchange is never followed by another attempt in the same call.
C14_NoRetry ==
    /\ []C14_EachAtMostOnce
    /\ [][\A p \in Callers : C14_NoSecondAttempt(p)]_vars

\* a request has used the primary path, then the fallback, and has sent the exchange
C14_Witness ==
    \E p \in Callers :
        /\ calls[p].pc = "exchange"
        /\ calls[p].refreshes = 1 /\ calls[p].attGets = 1
        /\ calls[p].fallbacks = 1 /\ calls[p].exchanges = 1
        /\ calls[p].fallback = "ok"

C15_SecondaryThrew == "mintAsWebsafeString(videoId) threw"

\* a request awaiting its secondary mint was given a sub-identifier and holds the
\* primary token; a response carrying the secondary mint's error is a bare 500
C15_AfterPrimary ==
    \A p \in Callers :
        /\ calls[p].pc = "mint2" =>
             calls[p].videoId # "" /\ Truthy(calls[p].visitorDataToken)
        /\ (Done(calls[p]) /\ calls[p].error = C15_SecondaryThrew) =>
             calls[p].status = 500 /\ calls[p].result = NoResult

\* the secondary mint settling ends the request: with the 500 of its error and no
\* result, or with a 200 whose result carries the token the mint resolved to
C15_SecondarySettles(p) ==
    (calls[p].pc = "mint2" /\ Steps(p))
    => /\ calls'[p].pc = "done"
       /\ \/ /\ calls'[p].status = 500 /\ calls'[p].error = C15_SecondaryThrew
             /\ calls'[p].result = NoResult
          \/ /\ calls'[p].status = 200 /\ calls'[p].error = ""
             /\ calls'[p].result.visitorDataToken = calls[p].visitorDataToken
             /\ calls'[p].result.videoIdToken # NoToken
             /\ calls'[p].result.videoIdToken.input = calls[p].videoId

\* C15: a secondary-mint failure fails the whole request: when a sub-identifier was given
\* and the secondary mint raises after the primary mint succeeded, generate returns an
\* error and no result (not a result without the secondary token), and the handler
\* answers 500.
C15_SecondaryMintFailure ==
    []C15_AfterPrimary /\ [][\A p \in Callers : C15_SecondarySettles(p)]_vars

\* a request has been answered 500 because its secondary mint raised
C15_Witness ==
    \E p \in Callers :
        /\ Done(calls[p]) /\ calls[p].error = C15_SecondaryThrew
        /\ calls[p].status = 500 /\ calls[p].result = NoResult

\* the pcs at which a request's interpreter script has been run
C16_SandboxRan ==
    {"bgclient", "snapshot", "exchange", "minter", "refreshed", "mint1", "mint2"}

\* C16: the process-wide host execution environment is constructed exactly once: after
\* any number of service-instance constructions the globals have been installed one
\* time only, and they are installed before any sandbox execution.
C16_HostEnvironmentOnce ==
    /\ domInstalls <= 1
    /\ hasDom <=> domInstalls = 1
    /\ instances >= 1 => domInstalls = 1
    /\ \A p \in Callers :
         (calls[p].pc \in C16_SandboxRan \/ calls[p].stored) => domInstalls = 1
    /\ minterCache # NoMinter => domInstalls = 1

\* several instances have been constructed, the last one after a sandbox had run, and
\* a request is inside the sandbox
C16_Witness ==
    /\ instances = MaxInstances /\ instances >= 2
    /\ domInstalls = 1 /\ hasDom
    /\ minterCache # NoMinter
    /\ calls[FirstCaller].pc = "snapshot"

\* the errors a refresh may end with
C17_RefreshErrors ==
    {"Innertube.create threw"} \cup AttestationUnavailable \cup SandboxLoadErrors
    \cup {"BG.BotGuardClient.create threw", "snapshot threw", "GenerateIT request failed",
          "Unexpected empty integrity token", "BG.WebPoMinter.create threw"}

\* a step of p's refresh other than the store leaves the cache as it is, and the step
\* that fails the refresh ends the request with the error and no minter made
C17_RefreshStep(p) ==
    (calls[p].pc \in RefreshPcs \cup {"it_create", "it_ready"} /\ Steps(p))
    => /\ calls[p].pc # "minter" => minterCache' = minterCache /\ nextMinter' = nextMinter
       /\ Finishes(p) =>
            /\ calls'[p].status = 500 /\ calls'[p].error \in C17_RefreshErrors
            /\ minterCache' = minterCache
            /\ nextMinter' = nextMinter
            /\ NeedsRefresh(minterCache, now) => NeedsRefresh(minterCache', now')

\* a request that reads a cache still absent or expired starts a refresh
C17_NextCallRefreshes(p) ==
    (~calls[p].cacheRead /\ calls'[p].cacheRead /\ NeedsRefresh(minterCache, now))
    => calls'[p].pc \in {"it_create", "it_ready"} /\ ~calls'[p].fromCache

\* C17: a refresh that fails at any stage (both challenge paths, missing interpreter
\* source, sandbox execution, integrity exchange, minter creation) leaves the minter
\* cache exactly as it was: an absent entry stays absent, an expired entry stays stored
\* and expired, and the next generate call starts a new refresh.
C17_FailedRefreshKeepsCache ==
    [][\A p \in Callers : C17_RefreshStep(p) /\ C17_NextCallRefreshes(p)]_vars

\* the only minter ever made is stored and expired, and the one caller's later request
\* has failed in the creation of a new one
C17_Witness ==
    /\ nextMinter = 2 /\ minterCache.id = 1 /\ Expired(minterCache, now)
    /\ calls[FirstCaller].pc = "done"
    /\ calls[FirstCaller].error = "BG.WebPoMinter.create threw"
    /\ \A p \in Callers \ {FirstCaller} : calls[p].pc = "idle"

\* a request awaiting its secondary mint has called it on the minter of its primary
\* token, and a result carrying both tokens has them from one minter
C18_OneMinterPerCall ==
    \A p \in Callers :
        /\ calls[p].pc = "mint2" =>
             /\ calls[p].tokenMinter # NoMinter
             /\ calls[p].visitorDataToken.minter = calls[p].tokenMinter.id
        /\ (Done(calls[p]) /\ calls[p].result.videoIdToken # NoToken) =>
             /\ calls[p].result.visitorDataToken.minter # 0
             /\ calls[p].result.videoIdToken.minter =
                    calls[p].result.visitorDataToken.minter

\* the secondary mint settles with a token of the minter the request holds, whatever
\* the cache holds
C18_SecondMint(p) ==
    (calls[p].pc = "mint2" /\ Steps(p) /\ calls'[p].status = 200)
    => /\ calls'[p].result.videoIdToken.minter = calls[p].tokenMinter.id
       /\ calls'[p].result.visitorDataToken = calls[p].visitorDataToken

\* C18: within one generate call the primary and the secondary token are minted by the
\* same minter (the one read from the cache at the expiry check, or the one built by
\* the call's own refresh), even when a concurrent generate call replaces the cache
\* entry between the two mints.
C18_SameMinter ==
    []C18_OneMinterPerCall /\ [][\A p \in Callers : C18_SecondMint(p)]_vars

\* a result carries two tokens of minter 1 although a concurrent request, still
\* awaiting its primary mint, has replaced the cache entry with minter 2
C18_Witness ==
    \E p, q \in Callers :
        /\ p # q
        /\ Done(calls[p]) /\ calls[p].status = 200
        /\ calls[p].result.visitorDataToken.minter = 1
        /\ calls[p].result.videoIdToken.minter = 1
        /\ minterCache.id = 2
        /\ calls[q].pc = "mint1" /\ calls[q].stored /\ calls[q].tokenMinter.id = 2

\* the requests awaiting an Innertube.create they have called (pot.ts:68-70)
C19_Creating == {p \in Callers : calls[p].pc \in {"vd_create", "it_create"}}

\* C19: the session-context provider instance is created at most once per service
\* instance: over any interleaving of generate calls, concurrent ones that both find it
\* not yet created included, the creation routine runs at most one time -- so never are
\* two runs of it in flight, and none is once an instance is stored -- and every later
\* use reuses the stored instance.
C19_CreatedAtMostOnce ==
    /\ Cardinality(C19_Creating) <= 1
    /\ innertube # NoInnertube => C19_Creating = {}

====
